---- MODULE Spec2Model ----
(***************************************************************************)
(* Model of the story-publishing scripts:                                  *)
(*   scripts/post_story.py            (URL -> container -> poll -> publish) *)
(*   scripts/upload_and_post_story.py (file -> content host -> the same)    *)
(*   scripts/github_uploader.py       (file -> content host, standalone)    *)
(* One run of one script is one behaviour.  Remote services are the         *)
(* environment: every response is drawn nondeterministically.               *)
(***************************************************************************)
EXTENDS Integers, Sequences, FiniteSets, TLC

VARIABLES
    script,        \* which entry script runs
    pc,            \* position in the script
    env,           \* configuration read at import: [ig, gh] present or not
    argc,          \* len(sys.argv)
    argType,       \* sys.argv[2] as typed by the operator
    file,          \* what the local path names: [exists, isfile, readable, size]
    media_type,    \* sys.argv[2].upper()
    media_url,     \* URL handed to upload_media
    sha,           \* data["sha"] of the create-or-replace body
    body,          \* request body built by upload_media
    container_id,  \* value returned by upload_media
    story_id,      \* value returned by publish_story
    requests,      \* every HTTP request issued so far, with its response
    clock,         \* time spent in time.sleep
    steps,         \* the positions the run went through, in order
    exit_code      \* -1 while the process runs, else its exit code

vars == <<script, pc, env, argc, argType, file, media_type, media_url, sha,
          body, container_id, story_id, requests, clock, steps, exit_code>>

(***************************************************************************)
(* Bounds and program constants                                            *)
(***************************************************************************)
MaxPolls == 3                          \* IN_PROGRESS answers the remote may give

SLEEP_SECONDS == 5                     \* time.sleep(5)
MAX_FILE_SIZE == 100 * 1024 * 1024     \* GitHub limit checked before upload

None == "None"

Scripts == {"post_story", "upload_and_post_story", "github_uploader"}

URL_ARG == "https://www.example.com/photo.png"
RAW_URL == "https://host/media/photo.png"

(***************************************************************************)
(* Python helpers                                                          *)
(***************************************************************************)
\* str.upper() on the media-type arguments an operator may type
Upper(s) ==
    CASE s = "image" -> "IMAGE"
      [] s = "Video" -> "VIDEO"
      [] s = "gif"   -> "GIF"
      [] OTHER       -> s

\* only None taken for a missing identifier
TruthyNotNone(v) == v # None

\* a caller that does not look at the value it got
TruthyUnchecked(v) == TRUE

\* truthiness of an identifier: None and the empty string are falsy
Truthy(v) == v \notin {None, ""}

\* response.raise_for_status(): raises for 4xx and 5xx
RaisesForStatus(status) == status >= 400 /\ status < 600

(***************************************************************************)
(* Remote responses.  kind "error" is a transport failure (no response),   *)
(* "invalid_json" a response whose body does not parse, "json" a parsed    *)
(* object; a field the object lacks is None.                               *)
(***************************************************************************)
Resp(k, st, i, sc, sh, u) ==
    [kind |-> k, status |-> st, id |-> i, status_code |-> sc, sha |-> sh, url |-> u]

TransportError == Resp("error", 0, None, None, None, None)

ProbeResponses ==
    {TransportError, Resp("invalid_json", 200, None, None, None, None)}
    \cup {Resp("json", 200, None, None, s, None) : s \in {None, "sha_a", "sha_b"}}
    \cup {Resp("json", st, None, None, None, None) : st \in {404, 500}}

PutResponses ==
    {TransportError, Resp("invalid_json", 201, None, None, None, None)}
    \cup {Resp("json", st, None, None, "sha_c", u) : st \in {200, 201}, u \in {None, RAW_URL}}
    \cup {Resp("json", st, None, None, None, None) : st \in {409, 500}}

MediaResponses ==
    {TransportError, Resp("invalid_json", 200, None, None, None, None)}
    \cup {Resp("json", st, i, None, None, None) :
            st \in {200, 201, 400}, i \in {None, "", "17895", "17896"}}

StatusCodes == {None, "FINISHED", "IN_PROGRESS", "FAILED", "EXPIRED"}

StatusResponses ==
    {TransportError, Resp("invalid_json", 200, None, None, None, None)}
    \cup {Resp("json", 200, i, sc, None, None) : i \in {None, "17895"}, sc \in StatusCodes}
    \cup {Resp("json", 400, None, None, None, None)}

PublishResponses ==
    {TransportError, Resp("invalid_json", 200, None, None, None, None)}
    \cup {Resp("json", st, i, None, None, None) : st \in {200, 400}, i \in {None, "", "17999"}}

(***************************************************************************)
(* The request log                                                         *)
(***************************************************************************)
\* op: GH_GET, GH_PUT, IG_MEDIA, IG_STATUS, IG_PUBLISH; arg: the revision token
\* (GH_PUT), the media URL (IG_MEDIA) or the container id (IG_STATUS, IG_PUBLISH);
\* at: the clock when issued; resp: the response; result: what the function
\* that issued it made of the response (the value it returns or stores,
\* "raise" for an exception, "again" for the recursive call)
Request(o, a, r, res) == [op |-> o, arg |-> a, at |-> clock, resp |-> r, result |-> res]

Ops(o) == {i \in 1..Len(requests) : requests[i].op = o}
Count(o) == Cardinality(Ops(o))

Files ==
    { [exists |-> FALSE, isfile |-> FALSE, readable |-> FALSE, size |-> 0],
      [exists |-> TRUE,  isfile |-> FALSE, readable |-> FALSE, size |-> 4096],
      [exists |-> TRUE,  isfile |-> TRUE,  readable |-> FALSE, size |-> 10240],
      [exists |-> TRUE,  isfile |-> TRUE,  readable |-> TRUE,  size |-> 0],
      [exists |-> TRUE,  isfile |-> TRUE,  readable |-> TRUE,  size |-> 10240],
      [exists |-> TRUE,  isfile |-> TRUE,  readable |-> TRUE,  size |-> 104857600],
      [exists |-> TRUE,  isfile |-> TRUE,  readable |-> TRUE,  size |-> 104857601] }

NoBody == [media_type |-> None, media_url |-> None, image_url |-> None,
           video_url |-> None, is_share_to_story |-> None]

(***************************************************************************)
(* Initial state: the operator's command line, configuration and file      *)
(***************************************************************************)
ArgTypes == {"IMAGE", "VIDEO", "image", "Video", "gif"}

Init ==
    /\ script \in Scripts
    /\ pc = "config"
    /\ env \in [ig : BOOLEAN, gh : BOOLEAN]
    /\ argc \in {2, 3, 4}
    /\ argType \in ArgTypes
    /\ file \in Files
    \* inputs a script never reads are left at one value
    /\ script = "post_story" => env.gh /\ file.size = 10240 /\ file.readable
    /\ script = "github_uploader" => env.ig /\ argType = "IMAGE"
    /\ media_type = None
    /\ media_url = None
    /\ sha = None
    /\ body = NoBody
    /\ container_id = None
    /\ story_id = None
    /\ requests = <<>>
    /\ clock = 0
    /\ steps = <<"config">>
    /\ exit_code = -1

\* sys.exit(code), or falling off the end of main (code 0)
Exit(code) == pc' = "exit" /\ exit_code' = code /\ steps' = Append(steps, "exit")

Goto(label) == pc' = label /\ exit_code' = exit_code /\ steps' = Append(steps, label)

Entered(label) == \E i \in 1..Len(steps) : steps[i] = label

Inputs == <<script, env, argc, argType, file>>
Locals == <<media_type, media_url, sha, body, container_id, story_id>>

(***************************************************************************)
(* Module-level configuration checks                                       *)
(***************************************************************************)
post_story_config ==
    /\ pc = "config" /\ script = "post_story"
    /\ IF ~env.ig THEN Exit(1) ELSE Goto("main")
    /\ UNCHANGED <<Inputs, Locals, requests, clock>>

\* importing github_uploader runs its configuration check first
upload_and_post_story_config ==
    /\ pc = "config" /\ script = "upload_and_post_story"
    /\ IF ~env.gh THEN Exit(1)
       ELSE IF ~env.ig THEN Exit(1)
       ELSE Goto("main")
    /\ UNCHANGED <<Inputs, Locals, requests, clock>>

github_uploader_config ==
    /\ pc = "config" /\ script = "github_uploader"
    /\ IF ~env.gh THEN Exit(1) ELSE Goto("main")
    /\ UNCHANGED <<Inputs, Locals, requests, clock>>

(***************************************************************************)
(* main: argument validation                                               *)
(***************************************************************************)
post_story_main ==
    /\ pc = "main" /\ script = "post_story"
    /\ IF argc # 3
       THEN Exit(1) /\ UNCHANGED <<media_type, media_url>>
       ELSE /\ media_type' = Upper(argType)
            /\ IF Upper(argType) \notin {"VIDEO", "IMAGE"}
               THEN Exit(1) /\ UNCHANGED media_url
               ELSE Goto("upload_media") /\ media_url' = URL_ARG
    /\ UNCHANGED <<Inputs, sha, body, container_id, story_id, requests, clock>>

upload_and_post_story_main ==
    /\ pc = "main" /\ script = "upload_and_post_story"
    /\ IF argc # 3
       THEN Exit(1) /\ UNCHANGED media_type
       ELSE /\ media_type' = Upper(argType)
            /\ IF Upper(argType) \notin {"VIDEO", "IMAGE"}
               THEN Exit(1)
               ELSE IF ~file.exists
               THEN Exit(1)
               ELSE Goto("upload_to_github")
    /\ UNCHANGED <<Inputs, media_url, sha, body, container_id, story_id, requests, clock>>

github_uploader_main ==
    /\ pc = "main" /\ script = "github_uploader"
    /\ IF argc # 2 THEN Exit(1) ELSE Goto("upload_to_github")
    /\ UNCHANGED <<Inputs, Locals, requests, clock>>

(***************************************************************************)
(* github_uploader.upload_to_github                                        *)
(***************************************************************************)
\* the limit taken for a GiB
TooLargeGiB(size) == size > 1024 * 1024 * 1024

TooLarge(size) == size > MAX_FILE_SIZE

\* local validation, before any network call
upload_to_github ==
    /\ pc = "upload_to_github"
    /\ IF ~file.exists THEN Exit(1)
       ELSE IF ~file.isfile THEN Exit(1)
       ELSE IF TooLarge(file.size) THEN Exit(1)
       ELSE Goto("probe")
    /\ UNCHANGED <<Inputs, Locals, requests, clock>>

\* the probe's revision token is never copied into the body
ProbeShaDropped(resp) ==
    IF resp.kind = "error" THEN "raise"
    ELSE IF resp.status = 200 /\ (resp.kind = "invalid_json" \/ resp.sha = None)
         THEN "raise"
         ELSE None

\* what the probe leaves in data["sha"]: the revision token of a 200 answer,
\* nothing for any other status; "raise" when an exception ends the function
ProbeSha(resp) ==
    IF resp.kind = "error" THEN "raise"
    ELSE IF resp.status = 200
         THEN IF resp.kind = "invalid_json" \/ resp.sha = None THEN "raise" ELSE resp.sha
         ELSE None

\* read the file, then GET the target path
upload_to_github_probe ==
    /\ pc = "probe"
    /\ IF ~file.readable
       THEN Exit(1) /\ UNCHANGED <<sha, requests>>
       ELSE \E resp \in ProbeResponses :
              LET s == ProbeSha(resp) IN
              /\ requests' = Append(requests,
                     Request("GH_GET", None, resp, s))
              /\ IF s = "raise"
                 THEN Exit(1) /\ UNCHANGED sha
                 ELSE Goto("put") /\ sha' = s
    /\ UNCHANGED <<Inputs, media_type, media_url, body, container_id, story_id, clock>>

\* a refused PUT returns nothing instead of ending the process
PutUrlNoExit(resp) ==
    IF resp.kind = "error" THEN "raise"
    ELSE IF resp.status \in {200, 201}
         THEN IF resp.kind = "invalid_json" \/ resp.url = None THEN "raise" ELSE resp.url
         ELSE None

\* the download URL of a 200/201 answer; "raise" when the function exits instead
PutUrl(resp) ==
    IF resp.kind = "error" THEN "raise"
    ELSE IF resp.status \in {200, 201}
         THEN IF resp.kind = "invalid_json" \/ resp.url = None THEN "raise" ELSE resp.url
         ELSE "raise"

\* PUT the content; the standalone script prints the URL and ends
upload_to_github_put ==
    /\ pc = "put"
    /\ \E resp \in PutResponses :
         LET u == PutUrl(resp) IN
         /\ requests' = Append(requests,
                Request("GH_PUT", sha, resp, u))
         /\ IF u = "raise"
            THEN Exit(1) /\ UNCHANGED media_url
            ELSE /\ media_url' = u
                 /\ IF script = "github_uploader" THEN Exit(0) ELSE Goto("upload_media")
    /\ UNCHANGED <<Inputs, media_type, sha, body, container_id, story_id, clock>>

(***************************************************************************)
(* post_story.py: upload_media, check_media_status, publish_story          *)
(***************************************************************************)
Body(mt, mu, iu, vu, flag) ==
    [media_type |-> mt, media_url |-> mu, image_url |-> iu, video_url |-> vu,
     is_share_to_story |-> flag]

post_story_body(url, kind) ==
    CASE kind = "IMAGE" -> Body("IMAGE", url, None, None, "True")
      [] kind = "VIDEO" -> Body("REELS", url, None, url, "True")
      [] OTHER          -> Body(kind, url, None, None, None)

\* raise_for_status, then result['id'] when the object has one
post_story_id(resp) ==
    IF resp.kind # "json" \/ RaisesForStatus(resp.status) THEN None ELSE resp.id

post_story_upload_media ==
    /\ pc = "upload_media" /\ script = "post_story"
    /\ body' = post_story_body(media_url, media_type)
    /\ \E resp \in MediaResponses :
         LET id == post_story_id(resp) IN
         /\ requests' = Append(requests, Request("IG_MEDIA", media_url, resp, id))
         /\ container_id' = id
         /\ IF ~Truthy(id) THEN Exit(1) ELSE Goto("check_media_status")
    /\ UNCHANGED <<Inputs, media_type, media_url, sha, story_id, clock>>

\* the polling given up at the third IN_PROGRESS answer
post_story_status_capped(resp) ==
    IF resp.kind # "json" \/ RaisesForStatus(resp.status) THEN "False"
    ELSE CASE resp.status_code = "FINISHED"    -> "True"
           [] resp.status_code = "IN_PROGRESS" ->
                IF Count("IG_STATUS") >= 2 THEN "False" ELSE "again"
           [] resp.status_code = "FAILED"      -> "False"
           [] OTHER                            -> "False"

\* an unknown status let through when the answer names the container
post_story_status_lenient(resp) ==
    IF resp.kind # "json" \/ RaisesForStatus(resp.status) THEN "False"
    ELSE CASE resp.status_code = "FINISHED"    -> "True"
           [] resp.status_code = "IN_PROGRESS" -> "again"
           [] resp.status_code = "FAILED"      -> "False"
           [] OTHER -> IF resp.id # None THEN "True" ELSE "False"

\* FAILED polled again like IN_PROGRESS
post_story_status_retry_failed(resp) ==
    IF resp.kind # "json" \/ RaisesForStatus(resp.status) THEN "False"
    ELSE CASE resp.status_code = "FINISHED"    -> "True"
           [] resp.status_code = "IN_PROGRESS" -> "again"
           [] resp.status_code = "FAILED"      -> "again"
           [] OTHER                            -> "False"

post_story_status(resp) ==
    IF resp.kind # "json" \/ RaisesForStatus(resp.status) THEN "False"
    ELSE CASE resp.status_code = "FINISHED"    -> "True"
           [] resp.status_code = "IN_PROGRESS" -> "again"
           [] resp.status_code = "FAILED"      -> "False"
           [] OTHER                            -> "False"

\* one poll; IN_PROGRESS goes on to the sleep before the recursive call
post_story_check_media_status ==
    /\ pc = "check_media_status" /\ script = "post_story"
    /\ \E resp \in StatusResponses :
         LET r == post_story_status(resp) IN
         /\ r = "again" => Count("IG_STATUS") < MaxPolls
         /\ requests' = Append(requests, Request("IG_STATUS", container_id, resp, r))
         /\ CASE r = "True"  -> Goto("publish_story")
              [] r = "again" -> Goto("sleep")
              [] OTHER       -> Exit(1)
    /\ UNCHANGED <<Inputs, Locals, clock>>

post_story_sleep ==
    /\ pc = "sleep" /\ script = "post_story"
    /\ clock' = clock + SLEEP_SECONDS
    /\ Goto("check_media_status")
    /\ UNCHANGED <<Inputs, Locals, requests>>

post_story_publish_story ==
    /\ pc = "publish_story" /\ script = "post_story"
    /\ \E resp \in PublishResponses :
         LET id == post_story_id(resp) IN
         /\ requests' = Append(requests, Request("IG_PUBLISH", container_id, resp, id))
         /\ story_id' = id
         /\ IF Truthy(id) THEN Exit(0) ELSE Exit(1)
    /\ UNCHANGED <<Inputs, media_type, media_url, sha, body, container_id, clock>>

(***************************************************************************)
(* upload_and_post_story.py: the same three functions                      *)
(***************************************************************************)
upload_and_post_story_body(url, kind) ==
    CASE kind = "IMAGE" -> Body("STORIES", None, url, None, None)
      [] kind = "VIDEO" -> Body("STORIES", None, None, url, None)
      [] OTHER          -> NoBody

\* response.json(), then status 200 required, then result['id']
upload_and_post_story_media_id(resp) ==
    IF resp.kind # "json" \/ resp.status # 200 THEN None ELSE resp.id

upload_and_post_story_upload_media ==
    /\ pc = "upload_media" /\ script = "upload_and_post_story"
    /\ body' = upload_and_post_story_body(media_url, media_type)
    /\ \E resp \in MediaResponses :
         LET id == upload_and_post_story_media_id(resp) IN
         /\ requests' = Append(requests, Request("IG_MEDIA", media_url, resp, id))
         /\ container_id' = id
         /\ IF ~Truthy(id) THEN Exit(1) ELSE Goto("check_media_status")
    /\ UNCHANGED <<Inputs, media_type, media_url, sha, story_id, clock>>

\* the image shortcut left out: an answer without status is judged by its id
upload_and_post_story_status_no_shortcut(resp, kind) ==
    IF resp.kind # "json" \/ RaisesForStatus(resp.status) THEN "False"
    ELSE CASE resp.status_code = "FINISHED"    -> "True"
           [] resp.status_code = "IN_PROGRESS" -> "again"
           [] resp.status_code = "FAILED"      -> "False"
           [] OTHER -> IF resp.id # None THEN "True" ELSE "False"

\* the IN_PROGRESS branch left out
upload_and_post_story_status_no_wait(resp, kind) ==
    IF resp.kind # "json" \/ RaisesForStatus(resp.status) THEN "False"
    ELSE IF resp.status_code = None /\ kind = "IMAGE" THEN "True"
    ELSE CASE resp.status_code = "FINISHED"    -> "True"
           [] resp.status_code = "FAILED"      -> "False"
           [] OTHER -> IF resp.id # None THEN "True" ELSE "False"

upload_and_post_story_status(resp, kind) ==
    IF resp.kind # "json" \/ RaisesForStatus(resp.status) THEN "False"
    ELSE IF resp.status_code = None /\ kind = "IMAGE" THEN "True"
    ELSE CASE resp.status_code = "FINISHED"    -> "True"
           [] resp.status_code = "IN_PROGRESS" -> "again"
           [] resp.status_code = "FAILED"      -> "False"
           [] OTHER -> IF resp.id # None THEN "True" ELSE "False"

upload_and_post_story_check_media_status ==
    /\ pc = "check_media_status" /\ script = "upload_and_post_story"
    /\ \E resp \in StatusResponses :
         LET r == upload_and_post_story_status(resp, media_type) IN
         /\ r = "again" => Count("IG_STATUS") < MaxPolls
         /\ requests' = Append(requests, Request("IG_STATUS", container_id, resp, r))
         /\ CASE r = "True"  -> Goto("publish_story")
              [] r = "again" -> Goto("sleep")
              [] OTHER       -> Exit(1)
    /\ UNCHANGED <<Inputs, Locals, clock>>

upload_and_post_story_sleep ==
    /\ pc = "sleep" /\ script = "upload_and_post_story"
    /\ clock' = clock + SLEEP_SECONDS
    /\ Goto("check_media_status")
    /\ UNCHANGED <<Inputs, Locals, requests>>

\* raise_for_status left out: an error answer that carries an id is taken
upload_and_post_story_publish_id_no_raise(resp) ==
    IF resp.kind # "json" THEN None ELSE resp.id

upload_and_post_story_publish_id(resp) ==
    IF resp.kind # "json" \/ RaisesForStatus(resp.status) THEN None ELSE resp.id

upload_and_post_story_publish_story ==
    /\ pc = "publish_story" /\ script = "upload_and_post_story"
    /\ \E resp \in PublishResponses :
         LET id == upload_and_post_story_publish_id(resp) IN
         /\ requests' = Append(requests, Request("IG_PUBLISH", container_id, resp, id))
         /\ story_id' = id
         /\ IF Truthy(id) THEN Exit(0) ELSE Exit(1)
    /\ UNCHANGED <<Inputs, media_type, media_url, sha, body, container_id, clock>>

(***************************************************************************)
(* Specification                                                           *)
(***************************************************************************)
Next ==
    \/ post_story_config
    \/ upload_and_post_story_config
    \/ github_uploader_config
    \/ post_story_main
    \/ upload_and_post_story_main
    \/ github_uploader_main
    \/ upload_to_github
    \/ upload_to_github_probe
    \/ upload_to_github_put
    \/ post_story_upload_media
    \/ post_story_check_media_status
    \/ post_story_sleep
    \/ post_story_publish_story
    \/ upload_and_post_story_upload_media
    \/ upload_and_post_story_check_media_status
    \/ upload_and_post_story_sleep
    \/ upload_and_post_story_publish_story

Spec == Init /\ [][Next]_vars

TypeOK ==
    /\ script \in Scripts
    /\ exit_code \in {-1, 0, 1}
    /\ (exit_code = -1) = (pc # "exit")
    /\ clock \in Nat

(***************************************************************************)
(* Vocabulary of the properties                                            *)
(***************************************************************************)
Last == requests[Len(requests)]

Orchestrator == script \in {"post_story", "upload_and_post_story"}

\* the remote answered with a parsed object and a status that does not raise
Answered(r) == r.kind = "json" /\ ~(r.status >= 400)

NonEmpty(v) == v # None /\ v # ""

\* the function that issued the request reported failure to its caller
StepFailed(e) ==
    CASE e.op \in {"GH_GET", "GH_PUT"}     -> e.result = "raise"
      [] e.op \in {"IG_MEDIA", "IG_PUBLISH"} -> ~NonEmpty(e.result)
      [] e.op = "IG_STATUS"                -> e.result = "False"

Rank(o) ==
    CASE o = "GH_GET" -> 1 [] o = "GH_PUT" -> 2 [] o = "IG_MEDIA" -> 3
      [] o = "IG_STATUS" -> 4 [] o = "IG_PUBLISH" -> 5

\* C1: in both orchestrators the requests are issued in the order content-host
\* upload, container creation, status poll, promotion; promotion is issued only
\* after container creation returned a non-empty identifier and the poll
\* returned success; a failed step is the last request of the run and the
\* process has then exited with a non-zero code.
C1_OrderAndAbort ==
    Orchestrator =>
      /\ \A i \in 1..Len(requests) - 1 :
           /\ Rank(requests[i].op) <= Rank(requests[i + 1].op)
           /\ ~StepFailed(requests[i])
      /\ \A i \in Ops("IG_MEDIA") :
           /\ Count("IG_MEDIA") = 1
           /\ script = "upload_and_post_story" =>
                i > 1 /\ requests[i - 1].op = "GH_PUT" /\ requests[i - 1].result # "raise"
      /\ \A i \in Ops("IG_STATUS") :
           i > 1 /\ requests[i - 1].op \in {"IG_MEDIA", "IG_STATUS"}
      /\ \A i \in Ops("IG_PUBLISH") :
           /\ i > 1 /\ requests[i - 1].op = "IG_STATUS" /\ requests[i - 1].result = "True"
           /\ \E j \in Ops("IG_MEDIA") : j < i /\ NonEmpty(requests[j].result)
                                         /\ NonEmpty(requests[j].resp.id)
      /\ (requests # <<>> /\ StepFailed(Last)) => (pc = "exit" /\ exit_code = 1)
      /\ pc = "exit" => exit_code # -1

\* C1 witness: a full pipeline run of the upload-and-post orchestrator whose last
\* step, the promotion, failed
C1_Witness ==
    /\ script = "upload_and_post_story"
    /\ requests # <<>> /\ Last.op = "IG_PUBLISH" /\ StepFailed(Last)
    /\ Count("IG_STATUS") >= 2
    /\ exit_code = 1

\* C2: when upload_to_github is called on a path that does not exist, or on a
\* file of more than 100 MiB (104857600 bytes), the process exits with a
\* non-zero code and no request, neither the probe GET nor the PUT, was issued.
C2_NoNetworkOnBadFile ==
    (Entered("upload_to_github") /\ (~file.exists \/ file.size > 104857600)) =>
      /\ Count("GH_GET") = 0 /\ Count("GH_PUT") = 0 /\ requests = <<>>
      /\ pc \in {"upload_to_github", "exit"}
      /\ pc = "exit" => exit_code = 1

\* C2 witness: upload_to_github was called on a file of 100 MiB + 1 byte and
\* the process has exited
C2_Witness ==
    /\ Entered("upload_to_github") /\ file.exists /\ file.isfile
    /\ file.size = 104857601
    /\ pc = "exit"

\* C3: the PUT carries a revision token exactly when the probe before it
\* answered 200, the token is then the one the probe reported, and after a 404
\* probe the PUT carries none.
C3_ShaIffProbe200 ==
    \A i \in Ops("GH_PUT") :
      /\ i > 1 /\ requests[i - 1].op = "GH_GET"
      /\ LET probe == requests[i - 1].resp
             token == requests[i].arg
         IN /\ (token # None) <=> (probe.status = 200)
            /\ probe.status = 200 => token = probe.sha /\ probe.sha # None
            /\ probe.status = 404 => token = None

\* C3 witness: a PUT that carries the token "sha_b" of a 200 probe
C3_Witness ==
    \E i \in Ops("GH_PUT") :
      requests[i].arg = "sha_b" /\ requests[i - 1].resp.status = 200

InProgress(e) ==
    e.op = "IG_STATUS" /\ Answered(e.resp) /\ e.resp.status_code = "IN_PROGRESS"

\* C4: in both check_media_status variants a poll answered IN_PROGRESS is
\* followed by one wait of 5 units and then one more poll of the same
\* container, judged by the same rules; no other request comes between them.
C4_InProgressWaitsAndPollsAgain ==
    Orchestrator =>
      /\ \A i \in 1..Len(requests) :
           InProgress(requests[i]) =>
             /\ requests[i].result = "again"
             /\ IF i < Len(requests)
                THEN /\ requests[i + 1].op = "IG_STATUS"
                     /\ requests[i + 1].arg = requests[i].arg
                     /\ requests[i + 1].at = requests[i].at + 5
                ELSE /\ exit_code = -1
                     /\ container_id = requests[i].arg
                     /\ \/ pc = "sleep" /\ clock = requests[i].at
                        \/ pc = "check_media_status" /\ clock = requests[i].at + 5
      /\ \A i, j \in Ops("IG_STATUS") :
           requests[i].resp = requests[j].resp => requests[i].result = requests[j].result

\* C4 witness: the upload-and-post orchestrator polled again after IN_PROGRESS
C4_Witness ==
    /\ script = "upload_and_post_story"
    /\ \E i \in 1..Len(requests) - 1 :
         InProgress(requests[i]) /\ requests[i + 1].op = "IG_STATUS"

\* C5: in both variants FINISHED and FAILED end the polling, also after any
\* number of IN_PROGRESS answers: FINISHED returns success to main, which goes
\* on to the promotion, FAILED returns failure to main, which exits; no poll
\* follows either.
C5_FinishedFailedTerminal ==
    Orchestrator =>
      \A i \in Ops("IG_STATUS") :
        LET e == requests[i] IN
        /\ (Answered(e.resp) /\ e.resp.status_code = "FINISHED") =>
             /\ e.result = "True"
             /\ \A j \in Ops("IG_STATUS") : j <= i
             /\ Entered("publish_story")
             /\ i < Len(requests) => requests[i + 1].op = "IG_PUBLISH"
        /\ (Answered(e.resp) /\ e.resp.status_code = "FAILED") =>
             /\ e.result = "False"
             /\ i = Len(requests)
             /\ ~Entered("publish_story")
             /\ pc = "exit" /\ exit_code = 1

\* C5 witness: post_story got FAILED after two IN_PROGRESS answers
C5_Witness ==
    /\ script = "post_story"
    /\ Len(requests) >= 4
    /\ Last.op = "IG_STATUS" /\ Last.resp.status_code = "FAILED"
    /\ InProgress(requests[Len(requests) - 1])
    /\ InProgress(requests[Len(requests) - 2])

ImageRun == script = "upload_and_post_story" /\ media_type = "IMAGE"

\* C6 as stated: in the upload-and-post orchestrator an IMAGE run issues no
\* status poll; promotion follows container creation directly.
C6_ImageNeverPolled ==
    ImageRun =>
      /\ Count("IG_STATUS") = 0
      /\ \A i \in Ops("IG_PUBLISH") : requests[i - 1].op = "IG_MEDIA"

\* C6 amended: in the upload-and-post orchestrator an IMAGE run still issues
\* the status poll after container creation; a poll answer that carries no
\* status code is taken as ready at once: success, no further poll, promotion
\* is the next request.
C6_ImagePolledOnceWhenNoStatus ==
    ImageRun =>
      /\ \A i \in Ops("IG_PUBLISH") : requests[i - 1].op = "IG_STATUS"
      /\ pc \in {"publish_story", "sleep"} => Count("IG_STATUS") >= 1
      /\ \A i \in Ops("IG_STATUS") :
           (Answered(requests[i].resp) /\ requests[i].resp.status_code = None) =>
             /\ requests[i].result = "True"
             /\ \A j \in Ops("IG_STATUS") : j <= i
             /\ Entered("publish_story")

\* C6 witness: an IMAGE run whose only poll had neither status code nor id, and
\* which went on to the promotion
C6_Witness ==
    /\ ImageRun
    /\ Count("IG_STATUS") = 1
    /\ \E i \in Ops("IG_STATUS") :
         /\ Answered(requests[i].resp)
         /\ requests[i].resp.status_code = None /\ requests[i].resp.id = None
    /\ Count("IG_PUBLISH") = 1

\* a parsed poll answer whose status is missing or not one of the three known
Unrecognised(e) ==
    /\ e.op = "IG_STATUS" /\ Answered(e.resp)
    /\ e.resp.status_code \notin {"FINISHED", "IN_PROGRESS", "FAILED"}

\* C7 as stated: on a missing or unrecognised status post_story returns failure
\* (no promotion), upload_and_post_story returns success exactly when the
\* answer carries an identifier; neither polls again.
C7_DisagreeOnIdOnly ==
    Orchestrator =>
      \A i \in Ops("IG_STATUS") :
        Unrecognised(requests[i]) =>
          /\ \A j \in Ops("IG_STATUS") : j <= i
          /\ IF script = "post_story"
             THEN requests[i].result = "False" /\ Count("IG_PUBLISH") = 0
             ELSE (requests[i].result = "True") <=> (requests[i].resp.id # None)

\* C7 amended: on a missing or unrecognised status post_story returns failure
\* for every media kind (no promotion, exit 1); upload_and_post_story returns
\* success exactly when the answer carries an identifier or the status is
\* missing and the media kind is IMAGE, failure otherwise; neither polls again.
C7_DisagreeOnIdOrImage ==
    Orchestrator =>
      \A i \in Ops("IG_STATUS") :
        Unrecognised(requests[i]) =>
          /\ \A j \in Ops("IG_STATUS") : j <= i
          /\ requests[i].result \in {"True", "False"}
          /\ IF script = "post_story"
             THEN /\ requests[i].result = "False"
                  /\ Count("IG_PUBLISH") = 0 /\ pc = "exit" /\ exit_code = 1
             ELSE (requests[i].result = "True") <=>
                    \/ requests[i].resp.id # None
                    \/ requests[i].resp.status_code = None /\ media_type = "IMAGE"

\* C7 witness: upload_and_post_story, VIDEO, status "EXPIRED" with an id: taken
\* as success and promoted
C7_Witness ==
    /\ script = "upload_and_post_story" /\ media_type = "VIDEO"
    /\ \E i \in Ops("IG_STATUS") :
         /\ requests[i].resp.status_code = "EXPIRED" /\ requests[i].resp.id # None
         /\ requests[i].result = "True"
    /\ Count("IG_PUBLISH") = 1

\* the promotion request was answered with a post identifier
Promoted ==
    /\ requests # <<>>
    /\ Last.op = "IG_PUBLISH"
    /\ Answered(Last.resp) /\ NonEmpty(Last.resp.id)

\* C8: an orchestrator run ends with exit code 0 exactly when the promotion
\* returned a post identifier; every other ended run (bad arguments, missing
\* configuration, failed validation, transport or remote error) has code 1.
C8_ExitZeroIffPromoted ==
    (Orchestrator /\ pc = "exit") =>
      /\ exit_code \in {0, 1}
      /\ (exit_code = 0) <=> Promoted
      /\ ~Promoted => exit_code = 1

\* C8 witness: the upload-and-post orchestrator ended with exit code 0
C8_Witness ==
    script = "upload_and_post_story" /\ pc = "exit" /\ exit_code = 0 /\ Promoted

\* C9 as stated: the container-creation body of every orchestrator sets the
\* share-to-story flag; IMAGE is sent as the media kind as given, VIDEO is
\* retagged.
C9_BodySharesToStory ==
    (Orchestrator /\ Count("IG_MEDIA") > 0) =>
      /\ body.is_share_to_story = "True"
      /\ media_type = "IMAGE" => body.media_type = "IMAGE"
      /\ media_type = "VIDEO" => body.media_type \notin {"VIDEO", None}

Refused(r) == r.kind = "error" \/ r.status < 200 \/ r.status > 299

\* C10 as stated: at most one GET and one PUT per call, any non-2xx answer of
\* the content host ends the process with a non-zero code, and a URL is
\* returned only after a 2xx PUT answer.
C10_AnyNon2xxFatal ==
    /\ Count("GH_GET") <= 1 /\ Count("GH_PUT") <= 1
    /\ \A i \in Ops("GH_GET") \cup Ops("GH_PUT") :
         (requests[i].resp.kind # "error" /\ Refused(requests[i].resp)) =>
           (pc = "exit" => exit_code = 1)
    /\ (script # "post_story" /\ media_url # None) =>
         \E i \in Ops("GH_PUT") : ~Refused(requests[i].resp)

\* C10 amended: upload_to_github never retries and fails fatally on any non-2xx
\* answer to the create-or-replace request: at most one GET and one PUT per
\* call, a non-2xx PUT answer ends the process at once with a non-zero code,
\* and a URL is returned only after a 2xx PUT answer.
C10_PutNon2xxFatal ==
    /\ Count("GH_GET") <= 1 /\ Count("GH_PUT") <= 1
    /\ \A i \in Ops("GH_PUT") :
         Refused(requests[i].resp) =>
           i = Len(requests) /\ pc = "exit" /\ exit_code = 1 /\ media_url = None
    /\ (script # "post_story" /\ media_url # None) =>
         \E i \in Ops("GH_PUT") : ~Refused(requests[i].resp)

\* C10 witness: the PUT was answered 409 and the process ended with code 1
C10_Witness ==
    /\ requests # <<>> /\ Last.op = "GH_PUT" /\ Last.resp.status = 409
    /\ pc = "exit" /\ exit_code = 1

\* check_media_status is running: about to poll, or asleep before the next poll
Polling == pc \in {"check_media_status", "sleep"}

InProgressPolls == {i \in Ops("IG_STATUS") : InProgress(requests[i])}

\* C11: the poll has no attempt bound or deadline.  While every answer so far
\* was IN_PROGRESS, however many there were, check_media_status has not
\* returned, the process runs and no promotion was issued; once it has
\* returned, the last poll was answered otherwise (or failed), every poll
\* before it was answered IN_PROGRESS, and after k such answers exactly k + 1
\* polls were issued, the last one 5 * k units after the first.
C11_PollsUntilOtherAnswer ==
    Orchestrator =>
      LET polls == Ops("IG_STATUS")
          k     == Cardinality(InProgressPolls)
      IN /\ \A i \in polls : (\E j \in polls : j > i) => InProgress(requests[i])
         /\ Polling =>
              /\ polls = InProgressPolls
              /\ Count("IG_STATUS") = k
              /\ Count("IG_PUBLISH") = 0
              /\ exit_code = -1
         /\ (polls # {} /\ ~Polling) =>
              /\ \E i \in polls : /\ ~InProgress(requests[i])
                                  /\ \A j \in polls : j <= i
                                  /\ requests[i].at = 5 * k
              /\ Count("IG_STATUS") = k + 1
         /\ \A i \in Ops("IG_PUBLISH") : \E j \in polls : j < i /\ ~InProgress(requests[j])

\* C11 witness: three IN_PROGRESS answers, then FINISHED at the fourth poll, and
\* check_media_status has returned to main
C11_Witness ==
    /\ Orchestrator
    /\ Cardinality(InProgressPolls) = 3
    /\ Count("IG_STATUS") = 4
    /\ \E i \in Ops("IG_STATUS") : requests[i].resp.status_code = "FINISHED"
    /\ pc = "publish_story"

\* C12: in every orchestrator run every status poll and the promotion carry
\* exactly the identifier that run's container creation answered with, at most
\* one container creation and one promotion are issued, and an empty or missing
\* identifier ends the run with no poll and no promotion.
C12_ContainerIdVerbatim ==
    Orchestrator =>
      /\ Count("IG_MEDIA") <= 1 /\ Count("IG_PUBLISH") <= 1
      /\ \A i \in Ops("IG_STATUS") \cup Ops("IG_PUBLISH") :
           \E j \in Ops("IG_MEDIA") :
             /\ j < i
             /\ requests[i].arg = requests[j].resp.id
             /\ NonEmpty(requests[i].arg)
      /\ \A j \in Ops("IG_MEDIA") :
           ~NonEmpty(requests[j].resp.id) =>
             /\ j = Len(requests)
             /\ Count("IG_STATUS") = 0 /\ Count("IG_PUBLISH") = 0
             /\ pc = "exit" /\ exit_code = 1
      /\ Polling \/ pc = "publish_story" =>
           \E j \in Ops("IG_MEDIA") : container_id = requests[j].resp.id

\* C12 witness: container creation answered "17896"; two polls and the
\* promotion all carried "17896"
C12_Witness ==
    /\ Orchestrator
    /\ \E j \in Ops("IG_MEDIA") : requests[j].resp.id = "17896"
    /\ Count("IG_STATUS") = 2 /\ Count("IG_PUBLISH") = 1
    /\ \A i \in Ops("IG_STATUS") \cup Ops("IG_PUBLISH") : requests[i].arg = "17896"

\* a run in which container creation answered 200 with an empty identifier
EmptyIdReached ==
    \E j \in Ops("IG_MEDIA") :
      requests[j].resp.id = "" /\ requests[j].resp.status = 200 /\ exit_code = 1

====
